---------------------------- MODULE Spec2Model ----------------------------
(***************************************************************************)
(* ResourceCache plugin of BabylonNative.                                  *)
(*                                                                         *)
(* Two programs are modelled together:                                     *)
(*   - the scripting-side coordinator, class ResourceCache of              *)
(*     Plugins/ResourceCache/Source/ResourceCache.js (registry, pending    *)
(*     loads, manifest tracking, asset tasks, events);                     *)
(*   - the native readiness gate, class ResourceCacheImpl of               *)
(*     Plugins/ResourceCache/Source/ResourceCache.cpp (lines 434-701, the  *)
(*     revision whose queue holds (experienceId, jsonString) pairs).       *)
(*                                                                         *)
(* Spec     drives the coordinator by calls made on the script thread.     *)
(* GateSpec drives it through the native entry points, the caller thread   *)
(*          and the script thread interleaving at every shared access.     *)
(***************************************************************************)
EXTENDS Integers, Sequences, FiniteSets, TLC

(***************************************************************************)
(* Bounds of the model (not program constants).                            *)
(***************************************************************************)
MaxLoads == 2
MaxSetScene == 2
MaxUpdates == 1
\* Asset tasks created in one run: a call that would start more is not made.
MaxTasks == 3
\* Calls of the native LoadResourcesFromJSON, and of the readiness signal.
MaxSubmits == 3
MaxSignals == 2
\* Calls of the native SetScene and UpdateResource.
MaxNativeSetScene == 1
MaxNativeUpdates == 1
\* Calls of on().
MaxHandlers == 3

(***************************************************************************)
(* Input domains.                                                          *)
(***************************************************************************)
\* The experienceId strings of manifests; any non-empty string is accepted
\* (ResourceCache.js:41), the string "undefined" included.
ExperienceIds == {"e1", "e2", "undefined"}
\* An absent experienceId argument: the JS value undefined.
Undefined == "(undefined)"
\* A value used as a property key of a plain object is converted to a string:
\* this._loadingManifests[undefined] is the property "undefined"
\* (ResourceCache.js:187, 207, 219).
ToPropertyKey(v) == IF v = Undefined THEN "undefined" ELSE v
\* The scene held before any setScene (ResourceCache.js:8).
NoScene == "null"
\* Scene objects handed to setScene.
Scenes == {"S1", "S2"}
ResourceIds == {"r1", "r2", "r3"}
NewUrls == {"u9"}

\* The JSON texts submitted, by name:
\*   "bad"   text that is not JSON
\*   "none"  {}
\*   "empty" {"resources": []}
\*   "A"     {"resources": [{id:r1,type:texture,url:u1},{id:r2,type:model,url:u2}]}
\*   "B"     {"resources": [{id:r1,type:audio,url:u3}]}
\*   "C"     {"resources": [{id:r2,type:texture,url:u4},{id:r3,type:font,url:u5}]}
Payloads == {"bad", "none", "empty", "A", "B", "C"}
\* The experienceIds and texts handed to the native LoadResourcesFromJSON.
NativeExperienceIds == {"e1", "e2"}
NativePayloads == {"bad", "empty", "A"}
\* The ids handed to the native UpdateResource.
NativeUpdateIds == {"r1"}

\* JSON.parse(jsonString) (ResourceCache.js:47): throws on text that is not
\* JSON, otherwise yields the document; has is FALSE when the document has no
\* "resources" member (reading it gives undefined).
JSONparse(jsonString) ==
    CASE jsonString = "bad"   -> [threw |-> TRUE,  has |-> FALSE, resources |-> <<>>]
      [] jsonString = "none"  -> [threw |-> FALSE, has |-> FALSE, resources |-> <<>>]
      [] jsonString = "empty" -> [threw |-> FALSE, has |-> TRUE,  resources |-> <<>>]
      [] jsonString = "A"     -> [threw |-> FALSE, has |-> TRUE, resources |->
                                   << [id |-> "r1", type |-> "texture", url |-> "u1"],
                                      [id |-> "r2", type |-> "model",   url |-> "u2"] >>]
      [] jsonString = "B"     -> [threw |-> FALSE, has |-> TRUE, resources |->
                                   << [id |-> "r1", type |-> "audio",   url |-> "u3"] >>]
      [] jsonString = "C"     -> [threw |-> FALSE, has |-> TRUE, resources |->
                                   << [id |-> "r2", type |-> "texture", url |-> "u4"],
                                      [id |-> "r3", type |-> "font",    url |-> "u5"] >>]

(***************************************************************************)
(* State.                                                                  *)
(***************************************************************************)
VARIABLES
    \* --- class ResourceCache (ResourceCache.js:5-11) ---
    resources,          \* _resources: id -> reference to a descriptor object
    scene,              \* _scene
    pendingLoads,       \* _pendingLoads: sequence of [key, resources] in key insertion order
    loadingManifests,   \* _loadingManifests: experienceId -> [total, loaded, failed]
    \* --- objects the coordinator refers to ---
    heap,               \* the descriptor objects created by JSON.parse: [id, type, url]
    tasks,              \* the asset tasks started and not yet called back
    cachedResources,    \* scene._cachedResources, per scene: id -> handle
    events,             \* the events emitted so far, oldest first
    eventHandlers,      \* _eventHandlers: event name -> the handlers pushed, in order
    console,            \* the console.warn / console.error line of the last call ("" if none)
    lastCall,           \* the last call made on the coordinator and how it returned
    \* --- history ---
    subs,               \* one entry per loadFromJSON call that got past JSON.parse
    recOwner,           \* experienceId -> the submission whose call wrote the progress record
    calls,              \* how many calls of each entry point were made (bounds the model)
    registered,         \* the calls of on(): [event, handler, before: events emitted by then]
    invoked,            \* the handler invocations: [handler, event: index in events]
    \* --- class ResourceCacheImpl (ResourceCache.cpp:460-485) ---
    m_jsReady,          \* std::atomic<bool>
    m_pendingJsonQueue, \* vector of (experienceId, jsonString), guarded by m_pendingJsonMutex
    m_jsResourceCache,  \* Napi::ObjectReference: "empty" or "set"
    \* --- the two threads and what lies between them ---
    runtimeQueue,       \* work handed to m_runtime.Dispatch and not yet run, oldest first
    caller,             \* the caller thread inside LoadResourcesFromJSON: [pc, entry]
    jsPc,               \* the script thread inside SetJsObjectReady: "idle" or "drain"
    babylon,            \* whether BABYLON._resourceCache exists
    window,             \* the script's globals: [BABYLON, script, setter]
    \* --- history of the gate ---
    entries,            \* one per LoadResourcesFromJSON call: [sawReady, route]
    delivered,          \* the entries loadFromJSON was called with, in call order
    signals,            \* one per SetJsObjectReady call: [ok, drained, called]
    nativeFault         \* a dispatched call used m_jsResourceCache while it was empty

jsVars == << resources, scene, pendingLoads, loadingManifests, heap, tasks,
             cachedResources, events, eventHandlers, console, lastCall, subs, recOwner,
             calls, registered, invoked >>

gateVars == << m_jsReady, m_pendingJsonQueue, m_jsResourceCache, runtimeQueue,
               caller, jsPc, babylon, window, entries, delivered, signals, nativeFault >>

vars == << jsVars, gateVars >>

(***************************************************************************)
(* Maps with a finite domain (JS Map and plain-object dictionaries).       *)
(***************************************************************************)
EmptyMap == [k \in {} |-> 0]
Put(f, k, v) == [x \in (DOMAIN f) \cup {k} |-> IF x = k THEN v ELSE f[x]]
Remove(f, k) == [x \in (DOMAIN f) \ {k} |-> f[x]]

\* The coordinator object as one value, so that a method is a function from
\* the object before the call to the object after it.
This ==
    [ resources |-> resources, scene |-> scene, pendingLoads |-> pendingLoads,
      loadingManifests |-> loadingManifests, heap |-> heap, tasks |-> tasks,
      cachedResources |-> cachedResources, events |-> events,
      eventHandlers |-> eventHandlers,
      console |-> "", ret |-> "undefined", subs |-> subs, recOwner |-> recOwner,
      registered |-> registered, invoked |-> invoked ]

(***************************************************************************)
(* Event bus: on and _emit.  The handlers are the observers' code: they    *)
(* return normally and do not call back into the coordinator.  The model   *)
(* keeps the sequence of emitted events and of handler invocations.        *)
(***************************************************************************)
EventNames == {"resourceLoaded", "resourceError", "manifestLoadComplete"}
Handlers == {"h1", "h2"}

\* on(event, handler) with set(event, [handler]) in place of the push.
on_Overwrites(c, event, handler) ==
    [c EXCEPT !.eventHandlers = Put(@, event, << handler >>),
              !.registered = Append(@, [event |-> event, handler |-> handler,
                                        before |-> Len(c.events)])]

\* on(event, handler).
on(c, event, handler) ==
    LET c1 == IF event \notin DOMAIN c.eventHandlers
              THEN [c EXCEPT !.eventHandlers = Put(@, event, << >>)]
              ELSE c
    IN [c1 EXCEPT !.eventHandlers[event] = Append(@, handler),
                  !.registered = Append(@, [event |-> event, handler |-> handler,
                                            before |-> Len(c.events)])]

\* _emit(event, data): handlers.forEach(handler => handler(data)).
emit(c, event, data) ==
    LET handlers == IF event \in DOMAIN c.eventHandlers THEN c.eventHandlers[event]
                    ELSE << >>
        occurrence == Len(c.events) + 1
    IN [c EXCEPT !.events = Append(@, [name |-> event] @@ data),
                 !.invoked = @ \o [k \in 1..Len(handlers) |->
                                     [handler |-> handlers[k], event |-> occurrence]]]

(***************************************************************************)
(* Manifest tracker.                                                       *)
(***************************************************************************)
\* _checkManifestLoadComplete without the delete of line 219.
checkManifestLoadComplete_KeepsRecord(c, experienceId, failureCount, by) ==
    IF ToPropertyKey(experienceId) \notin DOMAIN c.loadingManifests
    THEN c
    ELSE LET key == ToPropertyKey(experienceId)
             manifest == c.loadingManifests[key]
             overallSuccess == (failureCount = 0)
             c1 == emit(c, "manifestLoadComplete",
                        [id |-> "-", type |-> "-", experienceId |-> experienceId,
                         success |-> overallSuccess, sub |-> by,
                         rec |-> c.recOwner[key],
                         recFailed |-> manifest.failed,
                         subReported |-> c.subs[by].reported,
                         subFailures |-> c.subs[by].failures])
         IN c1

\* _checkManifestLoadComplete(experienceId, failureCount).  by: the submission
\* on whose behalf the caller reports completion (history only).
checkManifestLoadComplete(c, experienceId, failureCount, by) ==
    IF ToPropertyKey(experienceId) \notin DOMAIN c.loadingManifests
    THEN c
    ELSE LET key == ToPropertyKey(experienceId)
             manifest == c.loadingManifests[key]
             overallSuccess == (failureCount = 0)
             c1 == emit(c, "manifestLoadComplete",
                        [id |-> "-", type |-> "-", experienceId |-> experienceId,
                         success |-> overallSuccess, sub |-> by,
                         rec |-> c.recOwner[key],
                         recFailed |-> manifest.failed,
                         subReported |-> c.subs[by].reported,
                         subFailures |-> c.subs[by].failures])
         IN [c1 EXCEPT !.loadingManifests = Remove(@, key),
                       !.recOwner = Remove(@, key)]

\* _updateManifestProgress(experienceId, success) without the test of lines
\* 200-202: the outcome is counted and the record is never completed.
updateManifestProgress_CountsOnly(c, experienceId, success) ==
    IF ToPropertyKey(experienceId) \notin DOMAIN c.loadingManifests
    THEN [c EXCEPT !.console = "warn: progress update for unknown manifest"]
    ELSE LET key == ToPropertyKey(experienceId)
             m == c.loadingManifests[key]
             manifest == IF success THEN [m EXCEPT !.loaded = @ + 1]
                                    ELSE [m EXCEPT !.failed = @ + 1]
         IN [c EXCEPT !.loadingManifests[key] = manifest]

\* _updateManifestProgress(experienceId, success).
updateManifestProgress(c, experienceId, success) ==
    IF ToPropertyKey(experienceId) \notin DOMAIN c.loadingManifests
    THEN [c EXCEPT !.console = "warn: progress update for unknown manifest"]
    ELSE LET key == ToPropertyKey(experienceId)
             m == c.loadingManifests[key]
             manifest == IF success THEN [m EXCEPT !.loaded = @ + 1]
                                    ELSE [m EXCEPT !.failed = @ + 1]
             c1 == [c EXCEPT !.loadingManifests[key] = manifest]
         IN IF manifest.loaded + manifest.failed = manifest.total
            THEN checkManifestLoadComplete(c1, experienceId, manifest.failed,
                                           c.recOwner[key])
            ELSE c1

\* History: an outcome of a resource of submission sub reaches the tracker
\* (sub = 0: a standalone update, which belongs to no submission).
Report(c, sub, ok) ==
    IF sub = 0 THEN c
    ELSE LET key == c.subs[sub].experienceId
             own == key \in DOMAIN c.loadingManifests /\ c.recOwner[key] = sub
             other == key \in DOMAIN c.loadingManifests /\ c.recOwner[key] # sub
         IN [c EXCEPT !.subs[sub].reported = @ + 1,
                      !.subs[sub].failures = @ + (IF ok THEN 0 ELSE 1),
                      !.subs[sub].counted = @ + (IF own THEN 1 ELSE 0),
                      !.subs[sub].foreign = @ + (IF other THEN 1 ELSE 0)]

(***************************************************************************)
(* Asset task dispatcher.                                                  *)
(***************************************************************************)
\* The task the switch of _createAssetTask creates for a descriptor type, or
\* "none" (ResourceCache.js:97-139).
TaskKind(type) ==
    CASE type = "texture" -> "texture"
      [] type = "model"   -> "mesh"
      [] type = "audio"   -> "binary"
      [] OTHER            -> "none"

\* _createAssetTask(assetsManager, resource, experienceId).  st = [c, am]:
\* the coordinator and the tasks added to the assets manager so far.
createAssetTask(st, resource, experienceId, sub) ==
    LET c == st.c
        r == c.heap[resource]
        kind == TaskKind(r.type)
    IN IF kind # "none"
       THEN [c  |-> IF sub = 0 THEN c ELSE [c EXCEPT !.subs[sub].created = @ + 1],
             am |-> Append(st.am, [resource |-> resource, kind |-> kind, url |-> r.url,
                                   experienceId |-> experienceId, sub |-> sub])]
       ELSE [c  |-> updateManifestProgress(
                        [Report(c, sub, FALSE) EXCEPT !.console = "warn: could not create task"],
                        experienceId, FALSE),
             am |-> st.am]

RECURSIVE forEachCreateAssetTask(_, _, _, _)
forEachCreateAssetTask(st, list, experienceId, sub) ==
    IF list = << >> THEN st
    ELSE forEachCreateAssetTask(createAssetTask(st, Head(list), experienceId, sub),
                                Tail(list), experienceId, sub)

\* _loadResources(resources, experienceId): one assets manager, one task per
\* resource, then load() starts them all.
loadResources(c, list, experienceId, sub) ==
    LET st == forEachCreateAssetTask([c |-> c, am |-> << >>], list, experienceId, sub)
    IN [st.c EXCEPT !.tasks = @ \o st.am]

\* _storeResourceInScene(id, taskResult); kind is the kind of task whose
\* result it is (a texture task has .texture, a mesh task .loadedMeshes).
storeResourceInScene(c, id, kind) ==
    IF c.scene = NoScene
    THEN [c EXCEPT !.console = "warn: no scene, cannot store"]
    ELSE LET resource == CASE kind = "texture" -> "texture"
                           [] kind = "mesh"    -> "loadedMeshes"
                           [] OTHER            -> "taskResult"
         IN [c EXCEPT !.cachedResources[c.scene] = Put(@, id, resource)]

\* getResource(id): null without a scene or without scene._cachedResources
\* (which exists once something was stored), else the Map's entry.
getResource(c, id) ==
    IF c.scene = NoScene \/ c.cachedResources[c.scene] = EmptyMap THEN "null"
    ELSE IF id \in DOMAIN c.cachedResources[c.scene]
         THEN c.cachedResources[c.scene][id]
         ELSE "undefined"

\* task.onSuccess as wrapped by _createAssetTask (ResourceCache.js:118-164).
onSuccess(c, task) ==
    LET r == c.heap[task.resource]
    IN IF task.kind = "binary" /\ c.scene = NoScene
       THEN \* originalOnSuccess reads this._scene._cachedResources of null
            [c EXCEPT !.ret = "throw"]
       ELSE LET c1 == IF task.kind = "binary"
                      THEN [c EXCEPT !.cachedResources[c.scene] = Put(@, r.id, "sound")]
                      ELSE c
                c2 == storeResourceInScene(c1, r.id, task.kind)
                c3 == emit(c2, "resourceLoaded",
                           [id |-> r.id, type |-> r.type,
                            experienceId |-> task.experienceId, success |-> TRUE,
                            sub |-> task.sub, rec |-> 0, recFailed |-> 0,
                            subReported |-> 0, subFailures |-> 0])
            IN updateManifestProgress(Report(c3, task.sub, TRUE), task.experienceId, TRUE)

\* task.onError as set by _createAssetTask (ResourceCache.js:167-177).
onError(c, task) ==
    LET r == c.heap[task.resource]
        c1 == emit([c EXCEPT !.console = "error: failed to load resource"],
                   "resourceError",
                   [id |-> r.id, type |-> "-",
                    experienceId |-> task.experienceId, success |-> FALSE,
                    sub |-> task.sub, rec |-> 0, recFailed |-> 0,
                            subReported |-> 0, subFailures |-> 0])
    IN updateManifestProgress(Report(c1, task.sub, FALSE), task.experienceId, FALSE)


(***************************************************************************)
(* Resource registry and scene gate.                                       *)
(***************************************************************************)
\* _pendingLoads is a plain object: Object.keys lists its keys in the order
\* they were first assigned, and assigning an existing key keeps its place.
PendingKeys(pending) == [i \in 1..Len(pending) |-> pending[i].key]
PendingHas(pending, key) == \E i \in 1..Len(pending) : pending[i].key = key
PendingSet(pending, key, list) ==
    IF PendingHas(pending, key)
    THEN [i \in 1..Len(pending) |->
            IF pending[i].key = key THEN [key |-> key, resources |-> list] ELSE pending[i]]
    ELSE Append(pending, [key |-> key, resources |-> list])

\* The forEach of lines 55-58 with a registry that keeps the descriptor it
\* has: the first one stored under an id stays.
RECURSIVE forEachSet_KeepsFirst(_, _, _)
forEachSet_KeepsFirst(registry, objects, refs) ==
    IF refs = << >> THEN registry
    ELSE forEachSet_KeepsFirst(
             IF objects[Head(refs)].id \in DOMAIN registry THEN registry
             ELSE Put(registry, objects[Head(refs)].id, Head(refs)),
             objects, Tail(refs))

\* resources.forEach(resource => this._resources.set(resource.id, resource)),
\* refs being the references of the objects JSON.parse created.
RECURSIVE forEachSet(_, _, _)
forEachSet(registry, objects, refs) ==
    IF refs = << >> THEN registry
    ELSE forEachSet(Put(registry, objects[Head(refs)].id, Head(refs)), objects, Tail(refs))

\* pendingExperienceIds.forEach(experienceId => this._loadResources(...)).
RECURSIVE forEachPending(_, _)
forEachPending(c, pending) ==
    IF pending = << >> THEN c
    ELSE LET experienceId == Head(pending).key
             \* history: the submission whose list this is
             sub == CHOOSE k \in 0..Len(c.subs) :
                       \/ (k > 0 /\ c.subs[k].pendingAs = experienceId)
                       \/ (k = 0 /\ \A j \in 1..Len(c.subs) : c.subs[j].pendingAs # experienceId)
             c1 == IF sub = 0 THEN c ELSE [c EXCEPT !.subs[sub].pendingAs = ""]
         IN forEachPending(loadResources(c1, Head(pending).resources, experienceId, sub),
                           Tail(pending))

\* setScene(scene) without the comparison of lines 14-16.
setScene_Unguarded(c, newScene) ==
    LET c1 == [c EXCEPT !.scene = newScene, !.console = "log: scene set"]
        c2 == IF Len(c1.pendingLoads) > 0
              THEN [forEachPending(c1, c1.pendingLoads) EXCEPT !.pendingLoads = << >>]
              ELSE c1
    IN [c2 EXCEPT !.ret = "this"]

\* setScene(scene) without the reset of the pending queue of line 33.
setScene_KeepsPending(c, newScene) ==
    IF c.scene = newScene
    THEN [c EXCEPT !.ret = "this"]
    ELSE LET c1 == [c EXCEPT !.scene = newScene, !.console = "log: scene set"]
             c2 == IF Len(c1.pendingLoads) > 0
                   THEN [forEachPending(c1, c1.pendingLoads) EXCEPT
                            !.pendingLoads = c1.pendingLoads]
                   ELSE c1
         IN [c2 EXCEPT !.ret = "this"]

\* setScene(scene) without the forEach of lines 25-31: the pending lists are
\* dropped, not loaded.
setScene_SkipsLoads(c, newScene) ==
    IF c.scene = newScene
    THEN [c EXCEPT !.ret = "this"]
    ELSE [c EXCEPT !.scene = newScene, !.console = "log: scene set",
                   !.pendingLoads = << >>, !.ret = "this"]

\* setScene(scene).
setScene(c, newScene) ==
    IF c.scene = newScene
    THEN [c EXCEPT !.ret = "this"]
    ELSE LET c1 == [c EXCEPT !.scene = newScene, !.console = "log: scene set"]
             c2 == IF Len(c1.pendingLoads) > 0
                   THEN [forEachPending(c1, c1.pendingLoads) EXCEPT !.pendingLoads = << >>]
                   ELSE c1
         IN [c2 EXCEPT !.ret = "this"]

\* loadFromJSON(jsonString, experienceId) with JSON.parse of line 47 ahead of
\* the test of lines 41-44.
loadFromJSON_ParsesFirst(c, jsonString, experienceId) ==
    IF JSONparse(jsonString).threw THEN [c EXCEPT !.ret = "throw"] ELSE
    IF experienceId = "" \/ experienceId = Undefined
    THEN [c EXCEPT !.console = "error: loadFromJSON called without an experienceId"]
    ELSE LET doc == JSONparse(jsonString) IN
         IF doc.threw
         THEN [c EXCEPT !.ret = "throw"]
         ELSE
         LET n == Len(doc.resources)
             sub == Len(c.subs) + 1
             c0 == [c EXCEPT !.subs = Append(@,
                        [experienceId |-> experienceId, n |-> n, reported |-> 0,
                         failures |-> 0, counted |-> 0, foreign |-> 0, created |-> 0,
                         sceneAtIngest |-> c.scene,
                         known |-> Cardinality({i \in 1..n :
                                       TaskKind(doc.resources[i].type) # "none"}),
                         pendingAs |-> "", replaced |-> FALSE,
                         eventsBefore |-> Len(c.events),
                         tasksBefore |-> Len(c.tasks)])]
         IN IF ~doc.has \/ n = 0
            THEN checkManifestLoadComplete(c0, experienceId, 0, sub)
            ELSE
            LET refs == [i \in 1..n |-> Len(c.heap) + i]
                objects == c.heap \o doc.resources
                c1 == [c0 EXCEPT !.heap = objects,
                                 !.resources = forEachSet(@, objects, refs),
                                 !.loadingManifests =
                                     Put(@, experienceId, [total |-> n, loaded |-> 0, failed |-> 0]),
                                 !.recOwner = Put(@, experienceId, sub)]
            IN IF c1.scene = NoScene
               THEN [c1 EXCEPT !.console = "warn: no scene set, resources queued",
                               !.pendingLoads = PendingSet(@, experienceId, refs),
                               !.subs = [k \in 1..Len(@) |->
                                   IF k = sub THEN [@[k] EXCEPT !.pendingAs = experienceId]
                                   ELSE IF @[k].pendingAs = experienceId
                                        THEN [@[k] EXCEPT !.pendingAs = "", !.replaced = TRUE]
                                        ELSE @[k]]]
               ELSE loadResources(c1, refs, experienceId, sub)

\* loadFromJSON(jsonString, experienceId).
loadFromJSON(c, jsonString, experienceId) ==
    IF experienceId = "" \/ experienceId = Undefined
    THEN [c EXCEPT !.console = "error: loadFromJSON called without an experienceId"]
    ELSE LET doc == JSONparse(jsonString) IN
         IF doc.threw
         THEN [c EXCEPT !.ret = "throw"]
         ELSE
         LET n == Len(doc.resources)
             sub == Len(c.subs) + 1
             c0 == [c EXCEPT !.subs = Append(@,
                        [experienceId |-> experienceId, n |-> n, reported |-> 0,
                         failures |-> 0, counted |-> 0, foreign |-> 0, created |-> 0,
                         sceneAtIngest |-> c.scene,
                         known |-> Cardinality({i \in 1..n :
                                       TaskKind(doc.resources[i].type) # "none"}),
                         pendingAs |-> "", replaced |-> FALSE,
                         eventsBefore |-> Len(c.events),
                         tasksBefore |-> Len(c.tasks)])]
         IN IF ~doc.has \/ n = 0
            THEN checkManifestLoadComplete(c0, experienceId, 0, sub)
            ELSE
            LET refs == [i \in 1..n |-> Len(c.heap) + i]
                objects == c.heap \o doc.resources
                c1 == [c0 EXCEPT !.heap = objects,
                                 !.resources = forEachSet(@, objects, refs),
                                 !.loadingManifests =
                                     Put(@, experienceId, [total |-> n, loaded |-> 0, failed |-> 0]),
                                 !.recOwner = Put(@, experienceId, sub)]
            IN IF c1.scene = NoScene
               THEN [c1 EXCEPT !.console = "warn: no scene set, resources queued",
                               !.pendingLoads = PendingSet(@, experienceId, refs),
                               !.subs = [k \in 1..Len(@) |->
                                   IF k = sub THEN [@[k] EXCEPT !.pendingAs = experienceId]
                                   ELSE IF @[k].pendingAs = experienceId
                                        THEN [@[k] EXCEPT !.pendingAs = "", !.replaced = TRUE]
                                        ELSE @[k]]]
               ELSE loadResources(c1, refs, experienceId, sub)

\* updateResource(id, newUrl) without the return of line 227: the assignment
\* to resource.url of line 230 throws a TypeError on the missing descriptor.
updateResource_FallsThrough(c, id, newUrl) ==
    IF id \notin DOMAIN c.resources
    THEN [c EXCEPT !.console = "warn: resource not found", !.ret = "throw"]
    ELSE LET resource == c.resources[id]
             c1 == [c EXCEPT !.heap[resource].url = newUrl]
         IN IF c1.scene = NoScene
            THEN [c1 EXCEPT !.console = "warn: no scene set, cannot update resource"]
            ELSE LET st == createAssetTask([c |-> c1, am |-> << >>], resource, Undefined, 0)
                 IN [st.c EXCEPT !.tasks = @ \o st.am]

\* updateResource(id, newUrl) with the scene test of lines 233-236 ahead of
\* the assignment of line 230: without a scene the url is left as it was.
updateResource_SceneFirst(c, id, newUrl) ==
    IF id \notin DOMAIN c.resources
    THEN [c EXCEPT !.console = "warn: resource not found"]
    ELSE IF c.scene = NoScene
    THEN [c EXCEPT !.console = "warn: no scene set, cannot update resource"]
    ELSE LET resource == c.resources[id]
             c1 == [c EXCEPT !.heap[resource].url = newUrl]
             st == createAssetTask([c |-> c1, am |-> << >>], resource, Undefined, 0)
         IN [st.c EXCEPT !.tasks = @ \o st.am]

\* updateResource(id, newUrl).
updateResource(c, id, newUrl) ==
    IF id \notin DOMAIN c.resources
    THEN [c EXCEPT !.console = "warn: resource not found"]
    ELSE LET resource == c.resources[id]
             c1 == [c EXCEPT !.heap[resource].url = newUrl]
         IN IF c1.scene = NoScene
            THEN [c1 EXCEPT !.console = "warn: no scene set, cannot update resource"]
            ELSE LET st == createAssetTask([c |-> c1, am |-> << >>], resource, Undefined, 0)
                 IN [st.c EXCEPT !.tasks = @ \o st.am]

(***************************************************************************)
(* Calls on the script thread.                                             *)
(***************************************************************************)
\* The coordinator after a call, written back to the variables.
Becomes(c, op, a1, a2) ==
    /\ resources' = c.resources
    /\ scene' = c.scene
    /\ pendingLoads' = c.pendingLoads
    /\ loadingManifests' = c.loadingManifests
    /\ heap' = c.heap
    /\ tasks' = c.tasks
    /\ cachedResources' = c.cachedResources
    /\ events' = c.events
    /\ eventHandlers' = c.eventHandlers
    /\ registered' = c.registered
    /\ invoked' = c.invoked
    /\ console' = c.console
    /\ subs' = c.subs
    /\ recOwner' = c.recOwner
    /\ lastCall' = [op |-> op, a1 |-> a1, a2 |-> a2, ret |-> c.ret, held |-> scene]

LoadExperienceArgs == ExperienceIds \cup {"", Undefined}

\* The tasks a call starts stay within the bound.
Started(c) == Len(c.tasks) - Len(tasks)
Starts(c) == calls.tasks + Started(c) <= MaxTasks

CallLoadFromJSON(jsonString, experienceId) ==
    /\ UNCHANGED gateVars
    /\ calls.load < MaxLoads
    /\ Starts(loadFromJSON(This, jsonString, experienceId))
    /\ calls' = [calls EXCEPT !.load = @ + 1,
                            !.tasks = @ + Started(loadFromJSON(This, jsonString, experienceId))]
    /\ Becomes(loadFromJSON(This, jsonString, experienceId), "loadFromJSON", jsonString, experienceId)

CallSetScene(newScene) ==
    /\ UNCHANGED gateVars
    /\ calls.setScene < MaxSetScene
    /\ Starts(setScene(This, newScene))
    /\ calls' = [calls EXCEPT !.setScene = @ + 1,
                            !.tasks = @ + Started(setScene(This, newScene))]
    /\ Becomes(setScene(This, newScene), "setScene", newScene, "")

CallUpdateResource(id, newUrl) ==
    /\ UNCHANGED gateVars
    /\ calls.update < MaxUpdates
    /\ Starts(updateResource(This, id, newUrl))
    /\ calls' = [calls EXCEPT !.update = @ + 1,
                            !.tasks = @ + Started(updateResource(This, id, newUrl))]
    /\ Becomes(updateResource(This, id, newUrl), "updateResource", id, newUrl)

\* An observer registers a handler.
CallOn(event, handler) ==
    /\ Len(registered) < MaxHandlers
    /\ UNCHANGED gateVars
    /\ Becomes(on(This, event, handler), "on", event, handler)
    /\ UNCHANGED calls

\* The i-th task in flight calls back; the assets manager is done with it.
WithoutTask(c, i) == [c EXCEPT !.tasks = SubSeq(@, 1, i - 1) \o SubSeq(@, i + 1, Len(@))]

TaskSuccess(i) ==
    /\ jsPc = "idle"
    /\ i \in 1..Len(tasks)
    /\ UNCHANGED gateVars
    /\ Becomes(onSuccess(WithoutTask(This, i), tasks[i]), "onSuccess", heap[tasks[i].resource].id, tasks[i].experienceId)
    /\ UNCHANGED calls

TaskError(i) ==
    /\ jsPc = "idle"
    /\ i \in 1..Len(tasks)
    /\ UNCHANGED gateVars
    /\ Becomes(onError(WithoutTask(This, i), tasks[i]), "onError", heap[tasks[i].resource].id, tasks[i].experienceId)
    /\ UNCHANGED calls

(***************************************************************************)
(* The native side: class ResourceCacheImpl.                               *)
(***************************************************************************)
\* A call made on the script thread from native code leaves the coordinator
\* as c; the tasks it started are counted.
NativeBecomes(c, op, a1, a2) ==
    /\ Becomes(c, op, a1, a2)
    /\ calls' = [calls EXCEPT !.tasks = @ + Started(c)]

\* LoadResourcesFromJSON, ResourceCache.cpp:558-563: the caller thread reads
\* m_jsReady and, if it is set, hands the call to the runtime; otherwise it
\* goes on to line 566.
LoadResourcesFromJSON(experienceId, jsonString) ==
    /\ caller.pc = "idle"
    /\ Len(entries) < MaxSubmits
    /\ LET entry == Len(entries) + 1 IN
       /\ entries' = Append(entries, [experienceId |-> experienceId, jsonString |-> jsonString,
                                      sawReady |-> m_jsReady, queued |-> "no"])
       /\ IF m_jsReady
          THEN /\ runtimeQueue' = Append(runtimeQueue,
                       [op |-> "loadFromJSON", a1 |-> jsonString, a2 |-> experienceId,
                        entry |-> entry])
               /\ UNCHANGED caller
          ELSE /\ caller' = [pc |-> "append", entry |-> entry]
               /\ UNCHANGED runtimeQueue
    /\ UNCHANGED << jsVars, m_jsReady, m_pendingJsonQueue, m_jsResourceCache, jsPc,
                    babylon, window, delivered, signals, nativeFault >>

\* LoadResourcesFromJSON, ResourceCache.cpp:566-567: under the mutex, append.
QueueEntry ==
    /\ caller.pc = "append"
    /\ m_pendingJsonQueue' = Append(m_pendingJsonQueue,
           [experienceId |-> entries[caller.entry].experienceId,
            jsonString |-> entries[caller.entry].jsonString, entry |-> caller.entry])
    /\ caller' = [pc |-> "idle", entry |-> 0]
    /\ entries' = [entries EXCEPT ![caller.entry].queued =
                                      IF m_jsReady THEN "after" ELSE "before"]
    /\ UNCHANGED << jsVars, m_jsReady, m_jsResourceCache, runtimeQueue, jsPc, babylon, window,
                    delivered, signals, nativeFault >>

\* SetScene, ResourceCache.cpp:583-591: always handed to the runtime.
SetScene(newScene) ==
    /\ caller.pc = "idle"
    /\ calls.setScene < MaxNativeSetScene
    /\ calls' = [calls EXCEPT !.setScene = @ + 1]
    /\ runtimeQueue' = Append(runtimeQueue,
           [op |-> "setScene", a1 |-> newScene, a2 |-> "", entry |-> 0])
    /\ UNCHANGED << resources, scene, pendingLoads, loadingManifests, heap, tasks,
                    cachedResources, events, eventHandlers, console, lastCall, subs,
                    recOwner, registered, invoked >>
    /\ UNCHANGED << m_jsReady, m_pendingJsonQueue, m_jsResourceCache, caller, jsPc,
                    babylon, window, entries, delivered, signals, nativeFault >>

\* UpdateResource, ResourceCache.cpp:571-581: always handed to the runtime.
UpdateResource(id, newUrl) ==
    /\ caller.pc = "idle"
    /\ calls.update < MaxNativeUpdates
    /\ calls' = [calls EXCEPT !.update = @ + 1]
    /\ runtimeQueue' = Append(runtimeQueue,
           [op |-> "updateResource", a1 |-> id, a2 |-> newUrl, entry |-> 0])
    /\ UNCHANGED << resources, scene, pendingLoads, loadingManifests, heap, tasks,
                    cachedResources, events, eventHandlers, console, lastCall, subs,
                    recOwner, registered, invoked >>
    /\ UNCHANGED << m_jsReady, m_pendingJsonQueue, m_jsResourceCache, caller, jsPc,
                    babylon, window, entries, delivered, signals, nativeFault >>

\* The script installs the coordinator: BABYLON._resourceCache = resourceCache
\* (ResourceCache.js:307, 326).
InstallCoordinator ==
    /\ jsPc = "idle"
    /\ ~babylon
    /\ babylon' = TRUE
    /\ window' = [window EXCEPT !.BABYLON = "object"]
    /\ UNCHANGED << jsVars, m_jsReady, m_pendingJsonQueue, m_jsResourceCache, runtimeQueue,
                    caller, jsPc, entries, delivered, signals, nativeFault >>

\* SetJsObjectReady with m_jsReady = true moved in front of the test of
\* line 501.
SetJsObjectReady_FlagFirst ==
    /\ jsPc = "idle"
    /\ Len(signals) < MaxSignals
    /\ IF babylon
       THEN /\ m_jsResourceCache' = "set"
            /\ m_jsReady' = TRUE
            /\ jsPc' = "drain"
            /\ signals' = Append(signals, [ok |-> TRUE, done |-> FALSE, first |-> ~m_jsReady,
                                           drained |-> << >>, called |-> << >>])
       ELSE /\ signals' = Append(signals, [ok |-> FALSE, done |-> TRUE, first |-> FALSE,
                                           drained |-> << >>, called |-> << >>])
            /\ m_jsReady' = TRUE
            /\ UNCHANGED << m_jsResourceCache, jsPc >>
    /\ UNCHANGED << jsVars, m_pendingJsonQueue, runtimeQueue, caller, babylon, window, entries,
                    delivered, nativeFault >>

\* SetJsObjectReady, ResourceCache.cpp:497-507, up to the call of
\* ProcessPendingJsonQueue: without the coordinator it throws and changes
\* nothing.
SetJsObjectReady ==
    /\ jsPc = "idle"
    /\ Len(signals) < MaxSignals
    /\ IF babylon
       THEN /\ m_jsResourceCache' = "set"
            /\ m_jsReady' = TRUE
            /\ jsPc' = "drain"
            /\ signals' = Append(signals, [ok |-> TRUE, done |-> FALSE, first |-> ~m_jsReady,
                                           drained |-> << >>, called |-> << >>])
       ELSE /\ signals' = Append(signals, [ok |-> FALSE, done |-> TRUE, first |-> FALSE,
                                           drained |-> << >>, called |-> << >>])
            /\ UNCHANGED << m_jsResourceCache, m_jsReady, jsPc >>
    /\ UNCHANGED << jsVars, m_pendingJsonQueue, runtimeQueue, caller, babylon, window, entries,
                    delivered, nativeFault >>

\* DispatchLoadResourcesFromJSON, ResourceCache.cpp:533-546, called for each
\* element of pendingToProcess in turn (lines 525-528).  A call that throws
\* ends the loop: the exception leaves ProcessPendingJsonQueue.
\* st = [c, called, threw].
RECURSIVE forEachDispatch(_, _)
forEachDispatch(st, pendingToProcess) ==
    IF pendingToProcess = << >> \/ st.threw THEN st
    ELSE LET pair == Head(pendingToProcess)
             c == loadFromJSON([st.c EXCEPT !.console = "", !.ret = "undefined"],
                               pair.jsonString, pair.experienceId)
         IN forEachDispatch([c |-> c, called |-> Append(st.called, pair.entry),
                             threw |-> (c.ret = "throw")],
                            Tail(pendingToProcess))

\* ProcessPendingJsonQueue with the queue copied and not cleared (lines 518-519
\* left out).
ProcessPendingJsonQueue_NotCleared ==
    /\ jsPc = "drain"
    /\ LET pendingToProcess == m_pendingJsonQueue
           st == forEachDispatch([c |-> This, called |-> << >>, threw |-> FALSE],
                                 pendingToProcess)
       IN /\ m_pendingJsonQueue' = m_pendingJsonQueue
          /\ NativeBecomes(st.c, "loadFromJSON", "", "")
          /\ delivered' = delivered \o st.called
          /\ signals' = [signals EXCEPT ![Len(signals)] =
                            [ok |-> ~st.threw, done |-> TRUE, first |-> signals[Len(signals)].first,
                             drained |-> [i \in 1..Len(pendingToProcess) |-> pendingToProcess[i].entry],
                             called |-> st.called]]
    /\ jsPc' = "idle"
    /\ UNCHANGED << m_jsReady, m_jsResourceCache, runtimeQueue, caller, babylon, window, entries,
                    nativeFault >>

\* ProcessPendingJsonQueue taking readiness back when a dispatch throws.
ProcessPendingJsonQueue_ResetsOnThrow ==
    /\ jsPc = "drain"
    /\ LET pendingToProcess == m_pendingJsonQueue
           st == forEachDispatch([c |-> This, called |-> << >>, threw |-> FALSE],
                                 pendingToProcess)
       IN /\ m_pendingJsonQueue' = << >>
          /\ NativeBecomes(st.c, "loadFromJSON", "", "")
          /\ delivered' = delivered \o st.called
          /\ signals' = [signals EXCEPT ![Len(signals)] =
                            [ok |-> ~st.threw, done |-> TRUE, first |-> signals[Len(signals)].first,
                             drained |-> [i \in 1..Len(pendingToProcess) |-> pendingToProcess[i].entry],
                             called |-> st.called]]
    /\ jsPc' = "idle"
    /\ m_jsReady' = (forEachDispatch([c |-> This, called |-> << >>, threw |-> FALSE],
                                     m_pendingJsonQueue).threw = FALSE)
    /\ UNCHANGED << m_jsResourceCache, runtimeQueue, caller, babylon, window, entries,
                    nativeFault >>

\* ProcessPendingJsonQueue, ResourceCache.cpp:513-530: the queue is moved out
\* and cleared under the mutex, then every pair is dispatched in order.
ProcessPendingJsonQueue ==
    /\ jsPc = "drain"
    /\ LET pendingToProcess == m_pendingJsonQueue
           st == forEachDispatch([c |-> This, called |-> << >>, threw |-> FALSE],
                                 pendingToProcess)
       IN /\ m_pendingJsonQueue' = << >>
          /\ NativeBecomes(st.c, "loadFromJSON", "", "")
          /\ delivered' = delivered \o st.called
          /\ signals' = [signals EXCEPT ![Len(signals)] =
                            [ok |-> ~st.threw, done |-> TRUE, first |-> signals[Len(signals)].first,
                             drained |-> [i \in 1..Len(pendingToProcess) |-> pendingToProcess[i].entry],
                             called |-> st.called]]
    /\ jsPc' = "idle"
    /\ UNCHANGED << m_jsReady, m_jsResourceCache, runtimeQueue, caller, babylon, window, entries,
                    nativeFault >>

\* The runtime runs the oldest dispatched call on the script thread
\* (the lambdas of ResourceCache.cpp:560-562, 573-580, 585-590).
RunDispatched ==
    /\ jsPc = "idle"
    /\ runtimeQueue # << >>
    /\ LET work == Head(runtimeQueue) IN
       /\ runtimeQueue' = Tail(runtimeQueue)
       /\ IF m_jsResourceCache = "empty"
          THEN /\ nativeFault' = TRUE
               /\ UNCHANGED << jsVars, delivered >>
          ELSE /\ UNCHANGED nativeFault
               /\ CASE work.op = "loadFromJSON" ->
                          /\ NativeBecomes(loadFromJSON(This, work.a1, work.a2),
                                           "loadFromJSON", work.a1, work.a2)
                          /\ delivered' = Append(delivered, work.entry)
                    [] work.op = "setScene" ->
                          /\ NativeBecomes(setScene(This, work.a1), "setScene", work.a1, "")
                          /\ UNCHANGED delivered
                    [] work.op = "updateResource" ->
                          /\ NativeBecomes(updateResource(This, work.a1, work.a2),
                                           "updateResource", work.a1, work.a2)
                          /\ UNCHANGED delivered
    /\ UNCHANGED << m_jsReady, m_pendingJsonQueue, m_jsResourceCache, caller, jsPc,
                    babylon, window, entries, signals >>

\* The page defines the global BABYLON.  If the registration script ran
\* before, the setter it left on window.BABYLON installs the coordinator in
\* the new object (ResourceCache.js:320-333); it gives no readiness signal.
DefineBABYLON ==
    /\ jsPc = "idle"
    /\ window.BABYLON = "undefined"
    /\ window' = [window EXCEPT !.BABYLON = "object"]
    /\ babylon' = window.setter
    /\ UNCHANGED << jsVars, m_jsReady, m_pendingJsonQueue, m_jsResourceCache, runtimeQueue,
                    caller, jsPc, entries, delivered, signals, nativeFault >>

\* The registration script runs (ResourceCache.js:301-345).  With BABYLON
\* defined it installs the coordinator (line 307); without, it leaves a
\* setter on window.BABYLON (lines 315-335).  On both paths it then calls
\* __ResourceCacheSetJsReady (lines 338-341), i.e. SetJsObjectReady
\* (ResourceCache.cpp:495-511), which finds the coordinator or throws.
Registration ==
    /\ jsPc = "idle"
    /\ window.script = "loading"
    /\ LET found == window.BABYLON = "object" IN
       /\ window' = [window EXCEPT !.script = "ran", !.setter = ~found]
       /\ babylon' = found
       /\ IF found
          THEN /\ m_jsResourceCache' = "set"
               /\ m_jsReady' = TRUE
               /\ jsPc' = "drain"
               /\ signals' = Append(signals, [ok |-> TRUE, done |-> FALSE, first |-> ~m_jsReady,
                                              drained |-> << >>, called |-> << >>])
          ELSE /\ signals' = Append(signals, [ok |-> FALSE, done |-> TRUE, first |-> FALSE,
                                              drained |-> << >>, called |-> << >>])
               /\ UNCHANGED << m_jsResourceCache, m_jsReady, jsPc >>
    /\ UNCHANGED << jsVars, m_pendingJsonQueue, runtimeQueue, caller, entries, delivered,
                    nativeFault >>

Init ==
    /\ resources = EmptyMap
    /\ scene = NoScene
    /\ pendingLoads = << >>
    /\ loadingManifests = EmptyMap
    /\ heap = << >>
    /\ tasks = << >>
    /\ cachedResources = [s \in Scenes |-> EmptyMap]
    /\ events = << >>
    /\ eventHandlers = EmptyMap
    /\ registered = << >>
    /\ invoked = << >>
    /\ console = ""
    /\ lastCall = [op |-> "new", a1 |-> "", a2 |-> "", ret |-> "undefined", held |-> NoScene]
    /\ subs = << >>
    /\ recOwner = EmptyMap
    /\ calls = [load |-> 0, setScene |-> 0, update |-> 0, tasks |-> 0]
    /\ m_jsReady = FALSE
    /\ m_pendingJsonQueue = << >>
    /\ m_jsResourceCache = "empty"
    /\ runtimeQueue = << >>
    /\ caller = [pc |-> "idle", entry |-> 0]
    /\ jsPc = "idle"
    /\ babylon = FALSE
    /\ window = [BABYLON |-> "undefined", script |-> "loading", setter |-> FALSE]
    /\ entries = << >>
    /\ delivered = << >>
    /\ signals = << >>
    /\ nativeFault = FALSE

Next ==
    \/ \E jsonString \in Payloads, experienceId \in LoadExperienceArgs :
          CallLoadFromJSON(jsonString, experienceId)
    \/ \E newScene \in Scenes : CallSetScene(newScene)
    \/ \E id \in ResourceIds, newUrl \in NewUrls : CallUpdateResource(id, newUrl)
    \/ \E i \in 1..Len(tasks) : TaskSuccess(i)
    \/ \E i \in 1..Len(tasks) : TaskError(i)

Spec == Init /\ [][Next]_vars

\* The assets manager calls back every task it was given: some task in flight
\* reports.
TaskReports == \E i \in 1..Len(tasks) : TaskSuccess(i) \/ TaskError(i)

\* The calls of Spec with every created task reporting in the end.  The
\* condition is WF_vars(TaskReports) with ENABLED <<TaskReports>>_vars written
\* out: a callback can run exactly when a task is in flight and the script
\* thread is idle.
LiveSpec ==
    /\ Init /\ [][Next]_vars
    /\ \/ []<>(tasks = << >> \/ jsPc # "idle")
       \/ []<><<TaskReports>>_vars

\* The coordinator with observers: one experience, loaded up to MaxLoads
\* times, and up to MaxHandlers registrations at any moment.
EventPayloads == {"C"}
EventNext ==
    \/ \E event \in EventNames, handler \in Handlers : CallOn(event, handler)
    \/ \E jsonString \in EventPayloads : CallLoadFromJSON(jsonString, "e1")
    \/ CallSetScene("S1")
    \/ \E i \in 1..Len(tasks) : TaskSuccess(i)
    \/ \E i \in 1..Len(tasks) : TaskError(i)

EventSpec == Init /\ [][EventNext]_vars

GateNext ==
    \/ \E experienceId \in NativeExperienceIds, jsonString \in NativePayloads :
          LoadResourcesFromJSON(experienceId, jsonString)
    \/ QueueEntry
    \/ \E newScene \in Scenes : SetScene(newScene)
    \/ \E id \in NativeUpdateIds, newUrl \in NewUrls : UpdateResource(id, newUrl)
    \/ InstallCoordinator
    \/ SetJsObjectReady
    \/ ProcessPendingJsonQueue
    \/ RunDispatched

GateSpec == Init /\ [][GateNext]_vars

\* Start-up: the registration script and the definition of BABYLON in either
\* order, with the native callers submitting manifests meanwhile.
BootNext ==
    \/ \E experienceId \in NativeExperienceIds, jsonString \in NativePayloads :
          LoadResourcesFromJSON(experienceId, jsonString)
    \/ QueueEntry
    \/ DefineBABYLON
    \/ Registration
    \/ ProcessPendingJsonQueue
    \/ RunDispatched

BootSpec == Init /\ [][BootNext]_vars

(***************************************************************************)
(* Properties.  The history fields (subs, recOwner, the sub, subReported   *)
(* and subFailures fields of an event, entries, delivered, signals) record *)
(* what happened; they never influence the program.                        *)
(***************************************************************************)
Range(seq) == {seq[i] : i \in 1..Len(seq)}
Submissions == 1..Len(subs)

\* The manifestLoadComplete events of submission s, and its outcome events.
CompletionsOf(s) ==
    {i \in 1..Len(events) : events[i].name = "manifestLoadComplete" /\ events[i].sub = s}
OutcomesOf(s, name) ==
    {i \in 1..Len(events) : events[i].name = name /\ events[i].sub = s}
\* The manifestLoadComplete events that carry experienceId.
CompletionsFor(experienceId) ==
    {i \in 1..Len(events) : /\ events[i].name = "manifestLoadComplete"
                            /\ events[i].experienceId = experienceId}
InFlight(s) == {i \in 1..Len(tasks) : tasks[i].sub = s}
Max(S) == CHOOSE x \in S : \A y \in S : y <= x

\* C1: every manifest submitted (n >= 0 resources) gets exactly one
\* manifestLoadComplete, emitted only after exactly n outcomes of its resources
\* were recorded, a second manifest for the same experienceId included: never
\* two, none before the n-th outcome, and one as soon as the n-th is recorded.
C1_OneCompletionPerManifest ==
    \A s \in Submissions :
        /\ Cardinality(CompletionsOf(s)) <= 1
        /\ \A i \in CompletionsOf(s) : events[i].subReported = subs[s].n
        /\ subs[s].reported = subs[s].n => CompletionsOf(s) # {}

\* C2: a manifest whose resources array is empty or missing makes loadFromJSON
\* emit manifestLoadComplete { experienceId, success: true } before it returns,
\* whatever the scene and the progress records, and leaves no progress record.
C2_EmptyManifestCompletesAtOnce ==
    (/\ lastCall.op = "loadFromJSON"
     /\ lastCall.a1 \in {"none", "empty"}
     /\ lastCall.a2 \in ExperienceIds)
    => /\ Len(events) = subs[Len(subs)].eventsBefore + 1
       /\ events[Len(events)].name = "manifestLoadComplete"
       /\ events[Len(events)].experienceId = lastCall.a2
       /\ events[Len(events)].success
       /\ lastCall.a2 \notin DOMAIN loadingManifests

\* C3: the success flag of a manifestLoadComplete is true exactly when no
\* failure was recorded among the resources of the manifest it completes.
C3_SuccessIffNoFailure ==
    \A i \in 1..Len(events) :
        events[i].name = "manifestLoadComplete"
        => (events[i].success <=> events[i].subFailures = 0)

\* C7: a manifest of n >= 1 resources of known type ingested without a scene
\* creates no task and no event is emitted until setScene installs a scene;
\* that setScene creates exactly one task per queued resource; and when all n
\* tasks have succeeded, manifestLoadComplete { experienceId, success: true }
\* follows the n-th resourceLoaded, with none for that experienceId earlier.
C7_QueuedUntilScene ==
    \A s \in Submissions :
        (subs[s].sceneAtIngest = NoScene /\ subs[s].n >= 1 /\ subs[s].known = subs[s].n)
        => /\ scene = NoScene
                => subs[s].created = 0 /\ Len(events) = subs[s].eventsBefore
           /\ (scene # NoScene /\ ~subs[s].replaced) => subs[s].created = subs[s].n
           /\ Cardinality(OutcomesOf(s, "resourceLoaded")) = subs[s].n
                => LET last == Max(OutcomesOf(s, "resourceLoaded")) IN
                   /\ \E j \in CompletionsFor(subs[s].experienceId) :
                          j > last /\ events[j].success
                   /\ \A j \in CompletionsFor(subs[s].experienceId) :
                          j > subs[s].eventsBefore => j > last

\* C8: for a manifest of n resources dispatched with a scene, of which k fail
\* in the loader, once every task has called back there are exactly k
\* resourceError and n - k resourceLoaded events of its resources, and its
\* manifestLoadComplete comes after all of them with success = (k = 0).
C8_SiblingsStillReported ==
    \A s \in Submissions :
        (/\ subs[s].sceneAtIngest # NoScene
         /\ subs[s].n >= 1
         /\ subs[s].created = subs[s].n
         /\ InFlight(s) = {})
        => LET k == subs[s].failures
               outcomes == OutcomesOf(s, "resourceError") \cup OutcomesOf(s, "resourceLoaded")
           IN /\ Cardinality(OutcomesOf(s, "resourceError")) = k
              /\ Cardinality(OutcomesOf(s, "resourceLoaded")) = subs[s].n - k
              /\ \E j \in CompletionsOf(s) :
                     /\ \A i \in outcomes : i < j
                     /\ events[j].experienceId = subs[s].experienceId
                     /\ events[j].success <=> (k = 0)

\* What a call can change of the coordinator, the console apart.
coordinator == << resources, scene, pendingLoads, loadingManifests, heap, tasks,
                  cachedResources, events, eventHandlers, subs, recOwner, registered,
                  invoked >>

\* C9: setScene with the scene the coordinator already holds does nothing: no
\* pending manifest is replayed, no task is created, no event is emitted,
\* nothing is logged, and the coordinator itself is returned.
C9_SetSceneHeldIsNoOp ==
    [][(/\ lastCall'.op = "setScene"
        /\ calls'.setScene = calls.setScene + 1
        /\ lastCall'.a1 = scene)
       => /\ UNCHANGED coordinator
          /\ console' = ""
          /\ lastCall'.ret = "this"]_vars

\* A setScene with the held scene returned while a manifest was loading.
C9_Witness ==
    /\ lastCall.op = "setScene"
    /\ lastCall.a1 = lastCall.held
    /\ Len(tasks) > 0
    /\ DOMAIN loadingManifests # {}

\* A call of updateResource with an id the registry does not hold.
UpdateOfUnknownId ==
    /\ lastCall'.op = "updateResource"
    /\ calls'.update = calls.update + 1
    /\ lastCall'.a1 \notin DOMAIN resources

C4_QueuedDeliveredInOrderOnce ==
    /\ \A i, j \in 1..Len(delivered) : i # j => delivered[i] # delivered[j]
    /\ \A i, j \in 1..Len(delivered) :
           (i < j /\ ~entries[delivered[i]].sawReady /\ ~entries[delivered[j]].sawReady)
           => delivered[i] < delivered[j]
    /\ \A k \in 1..Len(signals) :
           (signals[k].done /\ signals[k].ok) => signals[k].called = signals[k].drained
    /\ \A k \in 1..Len(signals) :
           (signals[k].first /\ signals[k].done /\ signals[k].ok)
           => \A e \in 1..Len(entries) :
                  entries[e].queued = "before" => e \in Range(delivered)

\* Two entries queued before readiness were handed over by the first signal,
\* and a second signal has run since.
C4_Witness ==
    /\ Len(signals) = 2
    /\ signals[1].first /\ signals[1].done /\ signals[1].ok
    /\ Len(signals[1].called) >= 2
    /\ signals[2].done /\ signals[2].ok

\* C5: whatever the interleaving of LoadResourcesFromJSON on a caller thread
\* with SetJsObjectReady on the script thread, once readiness is set and
\* neither thread has anything left to do, every entry submitted has been
\* handed to the coordinator exactly once: none is left behind.
C5_NoEntryLeftBehind ==
    (/\ m_jsReady
     /\ jsPc = "idle"
     /\ caller.pc = "idle"
     /\ \A i \in 1..Len(runtimeQueue) : runtimeQueue[i].op # "loadFromJSON")
    => \A e \in 1..Len(entries) :
           Cardinality({i \in 1..Len(delivered) : delivered[i] = e}) = 1

\* C6: an entry whose call began after readiness is handed to the coordinator
\* only after every entry whose call began before readiness.
C6_BeforeReadinessFirst ==
    \A j \in 1..Len(delivered) :
        entries[delivered[j]].sawReady
        => \A e \in 1..Len(entries) :
               ~entries[e].sawReady => \E i \in 1..(j - 1) : delivered[i] = e

\* A call of updateResource with a registered id of a type that has a loader,
\* a scene being held; and the callback of a task started by such a call.
UpdateOfKnownId ==
    /\ lastCall'.op = "updateResource"
    /\ calls'.update = calls.update + 1
    /\ lastCall'.a1 \in DOMAIN resources
    /\ scene # NoScene
    /\ TaskKind(heap[resources[lastCall'.a1]].type) # "none"
StandaloneOutcome ==
    /\ lastCall'.op \in {"onSuccess", "onError"}
    /\ Len(tasks') = Len(tasks) - 1
    /\ lastCall'.a2 = Undefined

\* C11: updateResource on a known id with a scene set starts exactly one task
\* for that resource, carrying no experienceId; its outcome emits exactly one
\* event, resourceLoaded or resourceError, with no experienceId; neither step
\* creates, changes or removes a progress record, and no manifestLoadComplete
\* is emitted by either.
C11_StandaloneUpdate ==
    [][/\ UpdateOfKnownId
          => /\ Len(tasks') = Len(tasks) + 1
             /\ SubSeq(tasks', 1, Len(tasks)) = tasks
             /\ tasks'[Len(tasks')].resource = resources[lastCall'.a1]
             /\ tasks'[Len(tasks')].experienceId = Undefined
             /\ loadingManifests' = loadingManifests
             /\ events' = events
       /\ StandaloneOutcome
          => /\ Len(events') = Len(events) + 1
             /\ SubSeq(events', 1, Len(events)) = events
             /\ events'[Len(events')].name \in {"resourceLoaded", "resourceError"}
             /\ events'[Len(events')].experienceId = Undefined
             /\ loadingManifests' = loadingManifests]_vars

\* C12: SetJsObjectReady invoked while BABYLON._resourceCache is missing
\* reports an error, leaves the readiness flag false and the coordinator
\* reference unset, and leaves the queue as it is: nothing is drained and
\* nothing is handed to the coordinator.
C12_SignalWithoutCoordinator ==
    [][(Len(signals') = Len(signals) + 1 /\ ~babylon)
       => /\ ~signals'[Len(signals')].ok
          /\ signals'[Len(signals')].done
          /\ ~m_jsReady /\ ~m_jsReady'
          /\ jsPc' = "idle"
          /\ UNCHANGED << m_pendingJsonQueue, m_jsResourceCache, runtimeQueue, delivered,
                          jsVars >>]_vars

\* A signal failed for want of the coordinator while an entry was queued.
C12_Witness ==
    /\ ~babylon
    /\ signals # << >>
    /\ ~signals[Len(signals)].ok
    /\ m_pendingJsonQueue # << >>
    /\ ~m_jsReady
    /\ delivered = << >>

\* The artifact a task of a descriptor type yields.
Artifact(type) ==
    CASE type = "texture" -> "texture"
      [] type = "model"   -> "loadedMeshes"
      [] type = "audio"   -> "sound"

\* C13: when a task's success callback has returned, getResource(id) returns
\* the artifact of the descriptor's type: the texture for a texture, the mesh
\* list for a model, the sound built from the fetched bytes for audio.
C13_CachedHandleIsArtifact ==
    lastCall.op = "onSuccess"
    => LET i == Max({j \in 1..Len(events) : events[j].name = "resourceLoaded"})
       IN /\ events[i].id = lastCall.a1
          /\ getResource(This, events[i].id) = Artifact(events[i].type)

\* A submission whose resources have been handed to the dispatcher.
Dispatched(s) ==
    \/ subs[s].sceneAtIngest # NoScene
    \/ scene # NoScene /\ ~subs[s].replaced

\* C14: a descriptor of a type other than texture, model and audio gets no
\* task and is counted at once as one failure in the progress record of its
\* manifest, so that the manifest completes with success = false once its
\* other resources have reported; the dispatching call throws nothing.
C14_UnknownTypeCountsAsFailure ==
    /\ \A s \in Submissions :
        (subs[s].known < subs[s].n /\ Dispatched(s))
        => /\ subs[s].created = subs[s].known
           /\ subs[s].counted >= subs[s].n - subs[s].known
           /\ InFlight(s) = {}
                => \E j \in CompletionsOf(s) :
                       /\ ~events[j].success
                       /\ events[j].subReported = subs[s].n
    /\ lastCall.op \in {"loadFromJSON", "setScene"} /\ lastCall.a1 # "bad"
        => lastCall.ret # "throw"

\* The handlers invoked for the i-th event, and those registered for its name
\* when it was emitted, both in order.
InvokedFor(i) == SelectSeq(invoked, LAMBDA x : x.event = i)
RegisteredFor(i) ==
    SelectSeq(registered, LAMBDA r : r.event = events[i].name /\ r.before < i)

\* C15: each emit invokes the handlers registered by on() for that event name,
\* once per registration and in registration order, before anything else is
\* emitted; handlers registered for other names are not invoked.
C15_HandlersInRegistrationOrder ==
    /\ \A i \in 1..Len(events) :
          /\ Len(InvokedFor(i)) = Len(RegisteredFor(i))
          /\ \A k \in 1..Len(InvokedFor(i)) :
                 InvokedFor(i)[k].handler = RegisteredFor(i)[k].handler
    /\ \A p, q \in 1..Len(invoked) : p < q => invoked[p].event <= invoked[q].event
    /\ \A p \in 1..Len(invoked) : invoked[p].event \in 1..Len(events)

\* An event was emitted while two registrations for its name and one for
\* another name existed.
C15_Witness ==
    \E i \in 1..Len(events) :
        /\ Len(InvokedFor(i)) >= 2
        /\ \E k \in 1..Len(registered) :
               registered[k].event # events[i].name /\ registered[k].before < i

\* C16: no call made through a native entry point (SetScene,
\* LoadResourcesFromJSON, UpdateResource) is run while the coordinator
\* reference is still unset: a call issued before readiness waits for it.
C16_EntryPointsGated == ~nativeFault

\* C17: every progress record has loaded + failed <= total, and between
\* operations none has loaded + failed = total: the step that reaches the total
\* removes the record.
C17_RecordBelowTotal ==
    \A key \in DOMAIN loadingManifests :
        LET manifest == loadingManifests[key] IN
        /\ manifest.loaded >= 0 /\ manifest.failed >= 0
        /\ manifest.loaded + manifest.failed < manifest.total

\* An outcome has just filled a record, which is gone, while another record
\* is partly filled.
C17_Witness ==
    /\ lastCall.op \in {"onSuccess", "onError"}
    /\ events # << >>
    /\ events[Len(events)].name = "manifestLoadComplete"
    /\ ToPropertyKey(lastCall.a2) \notin DOMAIN loadingManifests
    /\ \E key \in DOMAIN loadingManifests :
           loadingManifests[key].loaded + loadingManifests[key].failed >= 1

\* C18: once readiness is set and the drain has run, the queue of the gate is
\* empty and stays empty: a non-empty queue implies the flag is false.
C18_QueueEmptyOnceReady ==
    (m_jsReady /\ jsPc = "idle") => m_pendingJsonQueue = << >>

\* C19: between operations a non-empty pending load queue implies that no
\* scene is held: loadFromJSON queues only without a scene, and a setScene
\* that installs a scene leaves the queue empty.
C19_PendingOnlyWithoutScene ==
    pendingLoads # << >> => scene = NoScene

\* A setScene installed a scene and dispatched a manifest that was queued.
C19_Witness ==
    /\ lastCall.op = "setScene"
    /\ lastCall.held = NoScene
    /\ scene # NoScene
    /\ pendingLoads = << >>
    /\ \E s \in Submissions : subs[s].sceneAtIngest = NoScene /\ subs[s].created >= 1

\* C20: the readiness flag starts false and, once true, is never set back to
\* false, whatever follows: further signals, signals that fail, submissions.
C20_ReadinessMonotonic ==
    /\ ~m_jsReady
    /\ [][m_jsReady => m_jsReady']_vars

\* Readiness held through a second signal that failed in its drain.
C20_Witness ==
    /\ m_jsReady
    /\ Len(signals) = 2
    /\ signals[1].ok /\ signals[1].done
    /\ signals[2].done /\ ~signals[2].ok

(***************************************************************************)
(* C21..C30                                                                *)
(***************************************************************************)
\* The references of the descriptors submission s handed in: JSON.parse
\* creates them in order, after those of the submissions before it.
RECURSIVE HeapBefore(_)
HeapBefore(s) == IF s <= 1 THEN 0 ELSE HeapBefore(s - 1) + subs[s - 1].n
RefsOf(s) == [i \in 1..subs[s].n |-> HeapBefore(s) + i]

\* The descriptors of a list that _createAssetTask creates a task for.
WithTask(list) == SelectSeq(list, LAMBDA r : TaskKind(heap[r].type) # "none")

\* The tasks of a sequence that were created for one experience.
TasksFor(added, experienceId) == SelectSeq(added, LAMBDA t : t.experienceId = experienceId)

\* A call of setScene with a scene that is not the held one.
SetSceneToAnother ==
    /\ lastCall'.op = "setScene"
    /\ calls'.setScene = calls.setScene + 1
    /\ lastCall'.a1 # scene

\* C21: setScene with a scene other than the held one replaces the held
\* scene, starts for every experienceId of the pending queue the load of
\* exactly that experienceId's descriptor list (one task per descriptor of a
\* known type, in list order, and no other task), leaves the pending queue
\* empty, and starts no task again for a manifest that was dispatched before.
C21_SetSceneDispatchesPending ==
    [][SetSceneToAnother =>
         LET added == SubSeq(tasks', Len(tasks) + 1, Len(tasks')) IN
         /\ scene' = lastCall'.a1
         /\ pendingLoads' = << >>
         /\ Len(tasks') >= Len(tasks)
         /\ SubSeq(tasks', 1, Len(tasks)) = tasks
         /\ \A i \in 1..Len(added) : PendingHas(pendingLoads, added[i].experienceId)
         /\ \A k \in 1..Len(pendingLoads) :
               LET mine == TasksFor(added, pendingLoads[k].key)
               IN [i \in 1..Len(mine) |-> mine[i].resource] = WithTask(pendingLoads[k].resources)
         /\ \A s \in Submissions :
               subs[s].created > 0 => subs'[s].created = subs[s].created]_vars

\* setScene found two experiences pending and started the tasks of both.
C21_Witness ==
    /\ lastCall.op = "setScene"
    /\ lastCall.held = NoScene
    /\ scene # NoScene
    /\ pendingLoads = << >>
    /\ \E s1, s2 \in Submissions :
          /\ subs[s1].experienceId # subs[s2].experienceId
          /\ subs[s1].sceneAtIngest = NoScene /\ subs[s2].sceneAtIngest = NoScene
          /\ subs[s1].created > 0 /\ subs[s2].created > 0
          /\ \E i, j \in 1..Len(tasks) : tasks[i].sub = s1 /\ tasks[j].sub = s2

\* A call of loadFromJSON, and the callback of a task.
LoadFromJSONStep == lastCall'.op = "loadFromJSON" /\ calls'.load = calls.load + 1
OutcomeStep == lastCall'.op \in {"onSuccess", "onError"} /\ Len(tasks') = Len(tasks) - 1

\* C22: from its creation to its removal a progress record changes only by
\* the recording of an outcome: its total never changes, loaded and failed
\* never decrease, and no call of loadFromJSON, for the same experienceId or
\* another, changes a record that exists.
C22_RecordChangesOnlyByOutcome ==
    [][\A key \in DOMAIN loadingManifests \cap DOMAIN loadingManifests' :
          /\ loadingManifests'[key].total = loadingManifests[key].total
          /\ loadingManifests'[key].loaded >= loadingManifests[key].loaded
          /\ loadingManifests'[key].failed >= loadingManifests[key].failed
          /\ LoadFromJSONStep => loadingManifests'[key] = loadingManifests[key]]_vars

\* C23: no outcome of a resource of one submission is counted in the progress
\* record of another submission, a later submission under the same
\* experienceId included.
C23_OutcomeCountedInOwnRecord ==
    \A s \in Submissions : subs[s].foreign = 0

\* C24: a call of loadFromJSON with an empty manifest neither removes nor
\* changes a progress record that exists, and emits no manifestLoadComplete
\* for the record of a manifest whose outcomes are not all recorded.
C24_EmptyManifestLeavesRecords ==
    [][(LoadFromJSONStep /\ Len(subs') = Len(subs) + 1 /\ subs'[Len(subs')].n = 0)
          => /\ loadingManifests' = loadingManifests
             /\ \A i \in (Len(events) + 1)..Len(events') :
                   events'[i].name = "manifestLoadComplete"
                      => ~(/\ events'[i].rec \in Submissions
                           /\ subs[events'[i].rec].n > 0
                           /\ subs[events'[i].rec].reported < subs[events'[i].rec].n)]_vars

\* C25: the outcome of a task whose experienceId has no progress record (the
\* manifest completed before, the experienceId is unknown, or the task
\* carries none) is dropped: it creates no record, changes no record and
\* emits no manifestLoadComplete.
C25_OutcomeWithoutRecordDropped ==
    [][(/\ OutcomeStep
        /\ \/ lastCall'.a2 = Undefined
           \/ lastCall'.a2 \notin DOMAIN loadingManifests)
          => /\ loadingManifests' = loadingManifests
             /\ \A i \in (Len(events) + 1)..Len(events') :
                   events'[i].name # "manifestLoadComplete"]_vars

\* A call of updateResource for an id of the registry while no scene is held.
UpdateWithoutScene ==
    /\ lastCall'.op = "updateResource"
    /\ calls'.update = calls.update + 1
    /\ lastCall'.a1 \in DOMAIN resources
    /\ scene = NoScene

\* C26: updateResource for a known id while no scene is set writes the new
\* url into the stored descriptor and changes nothing else: no task, no event,
\* no progress record, nothing in the pending queue; and no later setScene
\* starts a task without experienceId, i.e. a reload for that update.
C26_UpdateWithoutSceneOnlyMutates ==
    [][/\ UpdateWithoutScene
          => /\ heap' = [heap EXCEPT ![resources[lastCall'.a1]].url = lastCall'.a2]
             /\ UNCHANGED << resources, scene, pendingLoads, loadingManifests, tasks,
                             cachedResources, events, eventHandlers, invoked >>
       /\ lastCall'.op = "setScene"
          => \A i \in (Len(tasks) + 1)..Len(tasks') :
                tasks'[i].experienceId # Undefined /\ tasks'[i].sub # 0]_vars

\* A descriptor was updated while no scene was held, and the first scene has
\* just been set.
C26_Witness ==
    /\ lastCall.op = "setScene"
    /\ lastCall.held = NoScene
    /\ scene # NoScene
    /\ calls.update >= 1
    /\ \E id \in DOMAIN resources : heap[resources[id]].url \in NewUrls

\* The descriptors as the manifests spell them.
ManifestDescriptors ==
    UNION {Range(JSONparse(p).resources) : p \in {q \in Payloads : ~JSONparse(q).threw}}

\* C27: a task created at setScene for a manifest that was queued without a
\* scene loads a descriptor of that manifest with the id, type and url the
\* manifest had when it was ingested, whatever updateResource was called in
\* between.
C27_PendingListAsIngested ==
    \A i \in 1..Len(tasks) :
       (tasks[i].sub \in Submissions /\ subs[tasks[i].sub].sceneAtIngest = NoScene)
          => /\ tasks[i].resource \in Range(RefsOf(tasks[i].sub))
             /\ [heap[tasks[i].resource] EXCEPT !.url = tasks[i].url] \in ManifestDescriptors

\* C28: when exactly two manifests, both non-empty, were ingested for one
\* experienceId while no scene was set, the pending queue holds the list of
\* the later one only, setScene creates no task for the earlier one, and
\* exactly one manifestLoadComplete is emitted for the experienceId: none
\* before the outcomes of the later manifest are all recorded, one from then on.
C28_LaterPendingManifestWins ==
    \A s1, s2 \in Submissions :
       (/\ s1 < s2
        /\ subs[s1].experienceId = subs[s2].experienceId
        /\ subs[s1].n > 0 /\ subs[s2].n > 0
        /\ subs[s1].sceneAtIngest = NoScene /\ subs[s2].sceneAtIngest = NoScene
        /\ \A s3 \in Submissions \ {s1, s2} : subs[s3].experienceId # subs[s1].experienceId)
          => LET e == subs[s1].experienceId IN
             /\ scene = NoScene
                   => \E k \in 1..Len(pendingLoads) :
                         pendingLoads[k].key = e /\ pendingLoads[k].resources = RefsOf(s2)
             /\ subs[s1].created = 0 /\ InFlight(s1) = {}
             /\ Cardinality(CompletionsFor(e)) <= 1
             /\ CompletionsFor(e) # {} => subs[s2].reported = subs[s2].n
             /\ (scene # NoScene /\ subs[s2].reported = subs[s2].n)
                   => Cardinality(CompletionsFor(e)) = 1

\* C29: the registry only grows.  No step removes an id; a call of
\* loadFromJSON that ingests a non-empty manifest, with or without a scene,
\* leaves every descriptor of the manifest stored under its id (for an id
\* that was there before, or twice in the list, the one ingested last), and
\* leaves the other ids as they were.
C29_RegistryOnlyGrows ==
    [][/\ DOMAIN resources \subseteq DOMAIN resources'
       /\ (LoadFromJSONStep /\ Len(subs') = Len(subs) + 1 /\ subs'[Len(subs')].n > 0)
             => LET new == (Len(heap) + 1)..Len(heap') IN
                /\ Len(heap') = Len(heap) + subs'[Len(subs')].n
                /\ \A r \in new :
                      /\ heap'[r].id \in DOMAIN resources'
                      /\ resources'[heap'[r].id] = Max({q \in new : heap'[q].id = heap'[r].id})
                /\ \A id \in DOMAIN resources :
                      (\A r \in new : heap'[r].id # id) => resources'[id] = resources[id]
       /\ ~LoadFromJSONStep => resources' = resources]_vars

\* A manifest was ingested that carries an id the registry held already, and
\* the registry refers to the later descriptor.
C29_Witness ==
    /\ lastCall.op = "loadFromJSON"
    /\ \E id \in DOMAIN resources :
          /\ resources[id] > Len(heap) - subs[Len(subs)].n
          /\ \E r \in 1..(resources[id] - 1) : heap[r].id = id

\* C30: a readiness signal that arrives when the gate is ready already
\* delivers no entry to the coordinator.
C30_SignalWhenReadyDeliversNothing ==
    \A k \in 1..Len(signals) :
       (signals[k].ok /\ ~signals[k].first)
          => signals[k].called = << >> /\ signals[k].drained = << >>

(***************************************************************************)
(* C31..C33                                                                *)
(***************************************************************************)
\* C31: whatever manifests are ingested, repeated and empty ones for the same
\* experienceId included, once a scene is set and every task created has
\* reported no progress record is left: never in a state with a scene and no
\* task in flight, and, if a scene is ever set, from some moment on for good.
C31_NoRecordRemains ==
    /\ []((scene # NoScene /\ tasks = << >>) => loadingManifests = EmptyMap)
    /\ <>(scene # NoScene) => <>[](loadingManifests = EmptyMap)

\* A scene is set, two manifests with resources were ingested for the same
\* experienceId, every task has reported, and no record is left.
C31_Witness ==
    /\ scene # NoScene
    /\ tasks = << >>
    /\ loadingManifests = EmptyMap
    /\ \E s1, s2 \in Submissions :
          /\ s1 < s2
          /\ subs[s1].experienceId = subs[s2].experienceId
          /\ subs[s1].created > 0 /\ subs[s1].reported = subs[s1].n
          /\ subs[s2].created > 0 /\ subs[s2].reported = subs[s2].n

\* A call of loadFromJSON without an experienceId: the argument is left out
\* or is the empty string.
LoadWithoutExperienceId == LoadFromJSONStep /\ lastCall'.a2 \in {"", Undefined}

\* C33: loadFromJSON without an experienceId logs an error and returns before
\* the JSON is parsed (malformed JSON does not throw): the registry, the
\* descriptors, the progress records, the pending queue, the tasks, the scene
\* cache and the events are as before.
C33_LoadWithoutExperienceIdRejected ==
    [][LoadWithoutExperienceId
          => /\ UNCHANGED << resources, heap, loadingManifests, pendingLoads, tasks,
                             scene, cachedResources, events, invoked, subs, recOwner >>
             /\ lastCall'.ret = "undefined"
             /\ console' = "error: loadFromJSON called without an experienceId"]_vars

\* loadFromJSON was called with malformed JSON and no experienceId while a
\* manifest was pending, and returned.
C33_Witness ==
    /\ lastCall.op = "loadFromJSON"
    /\ lastCall.a1 = "bad"
    /\ lastCall.a2 = Undefined
    /\ lastCall.ret = "undefined"
    /\ pendingLoads # << >>
    /\ loadingManifests # EmptyMap

\* C32: the script gives the readiness signal only once the coordinator is
\* installed at BABYLON._resourceCache, whether BABYLON was defined before the
\* script ran or after, so that the signal finds the coordinator and the gate
\* becomes ready: every signal is given with the coordinator in place, and
\* once the script has run and the coordinator is installed the gate is ready.
C32_SignalAfterInstall ==
    /\ [][Len(signals') > Len(signals) => babylon']_vars
    /\ []((window.script = "ran" /\ babylon /\ jsPc = "idle") => m_jsReady)

=============================================================================
